---- MODULE Spec2Model ----
(***************************************************************************)
(* Model of RobustPGO's pose-with-uncertainty algebra                      *)
(* (RobustPGO/utils/geometry_utils.h) and of the outlier-rejection layer   *)
(* exercised by tests/testLoadGraph.cpp.                                   *)
(*                                                                         *)
(* The pose type T is gtsam::Pose3 (the type the tests instantiate):       *)
(* tangent order (rotation, translation), dimension 6.  Poses range over   *)
(* the exact subgroup of SE(3) whose rotations are signed permutation      *)
(* matrices and whose translations are integer vectors, so every pose      *)
(* operation is computed without rounding.  Matrix entries are doubles:    *)
(* an integer, or one of the three non-finite values NaN, +Inf, -Inf.      *)
(***************************************************************************)
EXTENDS Integers, Sequences, FiniteSets, TLC

VARIABLES A, B, out, op, noise, info,      \* PoseWithCovariance algebra
          DA, DB, dout, dop, abs_overload, \* PoseWithDistance algebra
          odom_threshold, lc_threshold,    \* outlier rejection: configuration
          trajectory, separator,           \* trajectory store, bridge between the robots
          nfg_odom, values,                \* odometry factors, estimate
          loop_closures, adjacency,        \* transform store, consistency graph
          inliers, rejected, promoted      \* current clique, rejected candidates, history

algVars == <<A, B, out, op, noise, info>>
distVars == <<DA, DB, dout, dop, abs_overload>>
pcmVars == <<odom_threshold, lc_threshold, trajectory, separator, nfg_odom, values,
             loop_closures, adjacency, inliers, rejected, promoted>>
vars == <<algVars, distVars, pcmVars>>

(***************************************************************************)
(* Bounds of the model.                                                    *)
(***************************************************************************)
\* largest translation coordinate of an input pose
MaxCoord == 1
\* largest variance on the diagonal of an input covariance
MaxVar == 1
\* largest translation coordinate of a PoseWithDistance input, in length units
MaxStep == 3
\* largest accumulated distance and coordinate kept in a PoseWithDistance
\* register, in length units
MaxDist == 4
\* length units per 1.0: lengths are fixed-point numbers with this denominator
UnitsPerOne == 2
\* largest number of poses in robot a's trajectory; robot b's has one fewer
MaxPoses == 2
\* largest number of loop-closure candidates offered
MaxLC == 3
\* largest distance of an offered loop closure from the trajectory-implied pose
MaxOffset == 1

(***************************************************************************)
(* IEEE doubles: integers plus NaN, +Inf, -Inf (encoded out of range).     *)
(***************************************************************************)
NaN == 2000000000
PInf == 1000000000
NInf == 0 - PInf

isnan(x) == x = NaN
IsFinite(x) == NInf < x /\ x < PInf

FNeg(x) == IF isnan(x) THEN NaN ELSE 0 - x

FAdd(x, y) ==
  IF isnan(x) \/ isnan(y) THEN NaN
  ELSE IF x = PInf THEN (IF y = NInf THEN NaN ELSE PInf)
  ELSE IF x = NInf THEN (IF y = PInf THEN NaN ELSE NInf)
  ELSE IF y = PInf \/ y = NInf THEN y
  ELSE x + y

FSub(x, y) == FAdd(x, FNeg(y))

FMul(x, y) ==
  IF isnan(x) \/ isnan(y) THEN NaN
  ELSE IF IsFinite(x) /\ IsFinite(y) THEN x * y
  ELSE IF x = 0 \/ y = 0 THEN NaN
  ELSE IF (x > 0) = (y > 0) THEN PInf ELSE NInf

(***************************************************************************)
(* Dimensions of gtsam::Pose3.                                             *)
(***************************************************************************)
getRotationDim == 3
getTranslationDim == 3
getDim == 6

(***************************************************************************)
(* Dense matrices (Eigen::MatrixXd), dim x dim.                            *)
(***************************************************************************)
\* A matrix is a tuple of rows, built entry by entry.
Vec3(F(_)) == <<F(1), F(2), F(3)>>
Vec6(F(_)) == <<F(1), F(2), F(3), F(4), F(5), F(6)>>
Mat3(F(_, _)) == Vec3(LAMBDA i : Vec3(LAMBDA j : F(i, j)))
Mat6(F(_, _)) == Vec6(LAMBDA i : Vec6(LAMBDA j : F(i, j)))

Vec7(F(_)) == <<F(1), F(2), F(3), F(4), F(5), F(6), F(7)>>
Mat7(F(_, _)) == Vec7(LAMBDA i : Vec7(LAMBDA j : F(i, j)))

Zero6 == Mat6(LAMBDA i, j : 0)
Identity6 == Mat6(LAMBDA i, j : IF i = j THEN 1 ELSE 0)
Identity3 == Mat3(LAMBDA i, j : IF i = j THEN 1 ELSE 0)

Transpose(M) == Mat6(LAMBDA i, j : M[j][i])

MatFinite(M) == \A i \in 1..6 : \A j \in 1..6 : IsFinite(M[i][j])

\* the product of two matrices; on finite entries the IEEE operations are the
\* integer ones
MatMul(M, N) ==
  IF MatFinite(M) /\ MatFinite(N)
  THEN Mat6(LAMBDA i, j :
              M[i][1] * N[1][j] + M[i][2] * N[2][j] + M[i][3] * N[3][j]
              + M[i][4] * N[4][j] + M[i][5] * N[5][j] + M[i][6] * N[6][j])
  ELSE Mat6(LAMBDA i, j :
              FAdd(FMul(M[i][1], N[1][j]),
              FAdd(FMul(M[i][2], N[2][j]),
              FAdd(FMul(M[i][3], N[3][j]),
              FAdd(FMul(M[i][4], N[4][j]),
              FAdd(FMul(M[i][5], N[5][j]), FMul(M[i][6], N[6][j])))))))

MatAdd(M, N) == Mat6(LAMBDA i, j : FAdd(M[i][j], N[i][j]))
MatSub(M, N) == Mat6(LAMBDA i, j : FSub(M[i][j], N[i][j]))
MatNeg(M) == Mat6(LAMBDA i, j : FNeg(M[i][j]))

\* H * C * H^T, the first-order propagation of covariance C through Jacobian H
Propagate(H, C) ==
  IF H = Identity6 /\ MatFinite(C) THEN C ELSE MatMul(MatMul(H, C), Transpose(H))

\* covar.block(r0, r0, n, n).trace(), with r0 counted from 0 as in Eigen
RECURSIVE BlockTrace(_, _, _)
BlockTrace(M, r0, n) ==
  IF n = 0 THEN 0 ELSE FAdd(BlockTrace(M, r0, n - 1), M[r0 + n][r0 + n])

(***************************************************************************)
(* gtsam::Pose3 restricted to signed-permutation rotations and integer     *)
(* translations: [R |-> 3x3 matrix, t |-> 3-vector].                       *)
(***************************************************************************)
PoseIdentity == [R |-> Identity3, t |-> <<0, 0, 0>>]

RotMul(R, S) == Mat3(LAMBDA i, j : R[i][1] * S[1][j] + R[i][2] * S[2][j] + R[i][3] * S[3][j])
RotTranspose(R) == Mat3(LAMBDA i, j : R[j][i])
RotApply(R, v) == Vec3(LAMBDA i : R[i][1] * v[1] + R[i][2] * v[2] + R[i][3] * v[3])

PoseCompose(p, q) ==
  LET Rv == RotApply(p.R, q.t)
  IN [R |-> RotMul(p.R, q.R), t |-> Vec3(LAMBDA i : p.t[i] + Rv[i])]

PoseInverse(p) ==
  LET Rv == RotApply(RotTranspose(p.R), p.t)
  IN [R |-> RotTranspose(p.R), t |-> Vec3(LAMBDA i : 0 - Rv[i])]

\* gtsam LieGroup::between: inverse() * g
PoseBetween(p, q) == PoseCompose(PoseInverse(p), q)

Skew(v) == << <<0, 0 - v[3], v[2]>>, <<v[3], 0, 0 - v[1]>>, <<0 - v[2], v[1], 0>> >>

\* gtsam Pose3::AdjointMap: [R 0; [t]x R  R]
AdjointMap(p) ==
  LET TR == RotMul(Skew(p.t), p.R)
  IN Mat6(LAMBDA i, j :
             IF i <= 3 /\ j <= 3 THEN p.R[i][j]
             ELSE IF i <= 3 THEN 0
             ELSE IF j <= 3 THEN TR[i - 3][j]
             ELSE p.R[i - 3][j - 3])

\* Jacobians gtsam returns with compose, inverse and between
ComposeHa(p, q) == AdjointMap(PoseInverse(q))
ComposeHb(p, q) == Identity6
InverseHa(p) == MatNeg(AdjointMap(p))
BetweenHa(p, q) == MatNeg(AdjointMap(PoseInverse(PoseBetween(p, q))))

(***************************************************************************)
(* Eigen::LLT<MatrixXd>(M).info().  The factorisation reads the lower      *)
(* triangle and stops with NumericalIssue at the first pivot x <= 0; with  *)
(* exact arithmetic pivot k is positive iff the k-th leading principal     *)
(* minor is (fraction-free elimination keeps the minors on the diagonal).  *)
(* A comparison with NaN is false, and the square roots of non-finite      *)
(* pivots are not modelled: on a matrix with a non-finite entry either     *)
(* outcome is possible.                                                    *)
(***************************************************************************)
Lower(M) == Mat6(LAMBDA i, j : IF j <= i THEN M[i][j] ELSE M[j][i])

RECURSIVE llt_inplace(_, _, _)
llt_inplace(M, k, prev) ==
  IF k > getDim THEN "Success"
  ELSE IF M[k][k] <= 0 THEN "NumericalIssue"
  ELSE llt_inplace(
         Mat6(LAMBDA i, j :
                IF i > k /\ j > k
                THEN (M[k][k] * M[i][j] - M[i][k] * M[k][j]) \div prev
                ELSE M[i][j]),
         k + 1, M[k][k])

LLT(M) ==
  IF MatFinite(Lower(M)) THEN {llt_inplace(Lower(M), 1, 1)}
  ELSE {"Success", "NumericalIssue"}

(***************************************************************************)
(* struct PoseWithCovariance<T>: [pose, covariance_matrix].                *)
(***************************************************************************)
PoseWithCovariance(pose_in, matrix_in) ==
  [pose |-> pose_in, covariance_matrix |-> matrix_in]

PoseWithCovarianceDefault ==
  [pose |-> PoseIdentity, covariance_matrix |-> Zero6]

\* construct from gtsam prior factor: zero covariance
PoseWithCovariancePrior(prior) ==
  [pose |-> prior, covariance_matrix |-> Zero6]

\* the between-factor constructor keeping the rotation block instead of the
\* translation block
PoseWithCovarianceBetweenFactor_wrong_block(measured, covar) ==
  [pose |-> measured,
   covariance_matrix |->
     IF isnan(BlockTrace(covar, 0, getRotationDim))
     THEN Mat6(LAMBDA i, j :
                 IF i <= getRotationDim /\ j <= getRotationDim THEN covar[i][j] ELSE 0)
     ELSE covar]

\* construct from gtsam between factor with Gaussian noise covariance covar
PoseWithCovarianceBetweenFactor(measured, covar) ==
  [pose |-> measured,
   covariance_matrix |->
     IF isnan(BlockTrace(covar, 0, getRotationDim))
     THEN Mat6(LAMBDA i, j :
                 IF i > getRotationDim /\ j > getRotationDim THEN covar[i][j] ELSE 0)
     ELSE covar]

compose(self, other) ==
  [pose |-> PoseCompose(self.pose, other.pose),
   covariance_matrix |->
     MatAdd(Propagate(ComposeHa(self.pose, other.pose), self.covariance_matrix),
            Propagate(ComposeHb(self.pose, other.pose), other.covariance_matrix))]

\* inverse() that keeps the pose as it is
inverse_pose_kept(self) ==
  [pose |-> self.pose,
   covariance_matrix |-> Propagate(InverseHa(self.pose), self.covariance_matrix)]

inverse(self) ==
  [pose |-> PoseInverse(self.pose),
   covariance_matrix |-> Propagate(InverseHa(self.pose), self.covariance_matrix)]

\* the covariance between() tries first: Cov_other - Ha * Cov_self * Ha^T
BetweenCovDirect(self, other) ==
  MatSub(other.covariance_matrix,
         Propagate(BetweenHa(self.pose, other.pose), self.covariance_matrix))

\* between() with the fallback left out
between_no_fallback(self, other, lltCovar1) ==
  [pose |-> PoseBetween(self.pose, other.pose),
   covariance_matrix |-> BetweenCovDirect(self, other)]

\* between() with the relative pose taken from other to self
between_reversed(self, other, lltCovar1) ==
  [pose |-> PoseBetween(other.pose, self.pose),
   covariance_matrix |->
     IF lltCovar1 = "NumericalIssue"
     THEN MatSub(self.covariance_matrix,
                 Propagate(BetweenHa(other.pose, self.pose), other.covariance_matrix))
     ELSE BetweenCovDirect(self, other)]

\* between(); lltCovar1 is the outcome of the Cholesky check of the first covariance
between(self, other, lltCovar1) ==
  [pose |-> PoseBetween(self.pose, other.pose),
   covariance_matrix |->
     IF lltCovar1 = "NumericalIssue"
     THEN MatSub(self.covariance_matrix,
                 Propagate(BetweenHa(other.pose, self.pose), other.covariance_matrix))
     ELSE BetweenCovDirect(self, other)]

(***************************************************************************)
(* PoseWithCovariance::norm(): sqrt(log^T * inverse(covariance) * log).    *)
(* The squared norm is kept as the exact fraction num/den with             *)
(* den = det(Cov) and num = -det([Cov log; log^T 0]) = log^T adj(Cov) log. *)
(* Eigen's inverse of a singular matrix divides by a zero pivot: the norm  *)
(* is then not finite (den = 0).                                           *)
(***************************************************************************)
\* T::Logmap(pose) of a pose with identity rotation: no rotation part, and the
\* translation itself as translation part
Logmap(p) == <<0, 0, 0, p.t[1], p.t[2], p.t[3]>>

\* (a * b - c * d) / p for p > 0 dividing the difference, split so that no
\* intermediate product leaves the 32-bit range
ExactDivPos(a, b, c, d, p) ==
  LET qa == a \div p
      ra == a - qa * p
      qb == b \div p
      rb == b - qb * p
      qc == c \div p
      rc == c - qc * p
      qd == d \div p
      rd == d - qd * p
  IN (qa * b + ra * qb) - (qc * d + rc * qd) + ((ra * rb - rc * rd) \div p)

ExactDiv(a, b, c, d, p) ==
  IF p > 0 THEN ExactDivPos(a, b, c, d, p) ELSE ExactDivPos(0 - a, b, 0 - c, d, 0 - p)

\* determinant by fraction-free elimination with row exchanges
RECURSIVE det7(_, _, _)
det7(M, k, prev) ==
  IF k = 7 THEN M[7][7]
  ELSE IF M[k][k] # 0
       THEN det7(Mat7(LAMBDA i, j :
                        IF i > k /\ j > k
                        THEN ExactDiv(M[k][k], M[i][j], M[i][k], M[k][j], prev)
                        ELSE M[i][j]),
                 k + 1, M[k][k])
  ELSE IF \A r \in (k + 1)..7 : M[r][k] = 0 THEN 0
  ELSE LET r == CHOOSE r \in (k + 1)..7 :
                  M[r][k] # 0 /\ \A q \in (k + 1)..(r - 1) : M[q][k] = 0
       IN 0 - det7(Mat7(LAMBDA i, j :
                          IF i = k THEN M[r][j] ELSE IF i = r THEN M[k][j] ELSE M[i][j]),
                   k, prev)

\* norm() that takes the logarithm of the pose to be zero
norm2_zero_log(self) ==
  [num |-> 0,
   den |-> IF ~MatFinite(self.covariance_matrix) THEN 0
           ELSE det7(Mat7(LAMBDA i, j :
                            IF i <= 6 /\ j <= 6 THEN self.covariance_matrix[i][j]
                            ELSE IF i = j THEN 1 ELSE 0), 1, 1)]

norm2(self) ==
  LET log == Logmap(self.pose)
      C == self.covariance_matrix
  IN IF ~MatFinite(C) THEN [num |-> 0, den |-> 0]
     ELSE [num |-> 0 - det7(Mat7(LAMBDA i, j :
                                   IF i <= 6 /\ j <= 6 THEN C[i][j]
                                   ELSE IF i <= 6 THEN log[i]
                                   ELSE IF j <= 6 THEN log[j]
                                   ELSE 0), 1, 1),
           den |-> det7(Mat7(LAMBDA i, j :
                               IF i <= 6 /\ j <= 6 THEN C[i][j]
                               ELSE IF i = j THEN 1 ELSE 0), 1, 1)]

(***************************************************************************)
(* struct PoseWithDistance<T>: [pose, distance].  Lengths (translation     *)
(* coordinates and distances) are counted in units of 1/UnitsPerOne.       *)
(***************************************************************************)
\* translation().norm(), defined where the norm is a whole number of units
HasNorm(v) ==
  \E n \in 0..(3 * MaxDist) : n * n = v[1] * v[1] + v[2] * v[2] + v[3] * v[3]
TranslationNorm(v) ==
  CHOOSE n \in 0..(3 * MaxDist) : n * n = v[1] * v[1] + v[2] * v[2] + v[3] * v[3]

\* the unqualified call abs(x) on a double x: overload resolution picks
\* std::abs(double) where a header has brought it into the global namespace,
\* and C's int abs(int) otherwise, which converts x to int (truncation toward
\* zero) before taking the absolute value
abs(x, overload) ==
  LET mag == IF x < 0 THEN 0 - x ELSE x
  IN IF overload = "int" THEN (mag \div UnitsPerOne) * UnitsPerOne ELSE mag

PoseWithDistanceDefault == [pose |-> PoseIdentity, distance |-> 0]

PoseWithDistancePrior(prior) == [pose |-> prior, distance |-> 0]

dist_compose(self, other) ==
  [pose |-> PoseCompose(self.pose, other.pose),
   distance |-> self.distance + TranslationNorm(other.pose.t)]

dist_inverse(self) ==
  [pose |-> PoseInverse(self.pose), distance |-> self.distance]

dist_between(self, other, overload) ==
  [pose |-> PoseBetween(self.pose, other.pose),
   distance |-> abs(other.distance - self.distance, overload)]

(***************************************************************************)
(* Inputs of the algebra.                                                  *)
(***************************************************************************)
Rz == << <<0, 0 - 1, 0>>, <<1, 0, 0>>, <<0, 0, 1>> >>
Rx == << <<1, 0, 0>>, <<0, 0, 0 - 1>>, <<0, 1, 0>> >>
\* input poses: the identity, a quarter turn about z after one step along x, a
\* quarter turn about x after one step against y, and for every larger length x
\* a quarter turn about z after x along x and x against y
PoseSet ==
  {PoseIdentity, [R |-> Rz, t |-> <<1, 0, 0>>], [R |-> Rx, t |-> <<0, 0 - 1, 0>>]}
    \cup {[R |-> Rz, t |-> <<x, 0 - x, 0>>] : x \in 2..MaxCoord}

\* diag(r, r, r, t, t, t)
DiagRT(r, t) == Mat6(LAMBDA i, j : IF i # j THEN 0 ELSE IF i <= 3 THEN r ELSE t)

\* a positive definite covariance with correlated rotation and translation
Correlated == Mat6(LAMBDA i, j : IF i = j THEN 2 ELSE IF {i, j} = {1, 4} THEN 1 ELSE 0)

FiniteCovSet ==
  {Zero6, Correlated}
    \cup {DiagRT(v, v) : v \in 1..MaxVar}
    \cup {DiagRT(1, 0), DiagRT(0, 1)}

\* noise covariances with a non-finite rotation block, as (R^T R)^-1 of a
\* singular information matrix produces them
WithRot(M, d, o) ==
  Mat6(LAMBDA i, j : IF i <= 3 /\ j <= 3 THEN (IF i = j THEN d ELSE o) ELSE M[i][j])

DegenerateCovSet ==
  {WithRot(DiagRT(1, 1), NaN, NaN), WithRot(Correlated, NaN, 0),
   WithRot(DiagRT(1, 1), PInf, 0), WithRot(DiagRT(1, 1), 1, NaN)}

NoiseSet == FiniteCovSet \cup DegenerateCovSet

(***************************************************************************)
(* The algebra as a register machine: A and B hold operands built by the   *)
(* constructors (or a stored result), out the result of the last           *)
(* operation op.                                                           *)
(***************************************************************************)
AlgIdle ==
  /\ A = PoseWithCovarianceDefault
  /\ B = PoseWithCovarianceDefault
  /\ out = PoseWithCovarianceDefault
  /\ op = "default"
  /\ noise = Zero6
  /\ info = "none"

DistIdle ==
  /\ DA = PoseWithDistanceDefault
  /\ DB = PoseWithDistanceDefault
  /\ dout = PoseWithDistanceDefault
  /\ dop = "default"
  /\ abs_overload = "double"

PcmIdle ==
  /\ odom_threshold = 0
  /\ lc_threshold = 0
  /\ trajectory = [r \in {"a", "b"} |-> <<>>]
  /\ separator = PoseWithCovarianceDefault
  /\ nfg_odom = {}
  /\ values = {}
  /\ loop_closures = <<>>
  /\ adjacency = {}
  /\ inliers = {}
  /\ rejected = {}
  /\ promoted = {}

InitAlg ==
  /\ DistIdle
  /\ PcmIdle
  /\ A = PoseWithCovarianceDefault
  /\ B = PoseWithCovarianceDefault
  /\ out = PoseWithCovarianceDefault
  /\ op = "default"
  /\ noise = Zero6
  /\ info = "none"

NewPrior ==
  \E p \in PoseSet :
    /\ B' = PoseWithCovariancePrior(p)
    /\ out' = B'
    /\ op' = "prior"
    /\ noise' = Zero6
    /\ info' = "none"
    /\ UNCHANGED <<A, distVars, pcmVars>>

NewBetweenFactor ==
  \E p \in PoseSet : \E c \in NoiseSet :
    /\ B' = PoseWithCovarianceBetweenFactor(p, c)
    /\ out' = B'
    /\ noise' = c
    /\ op' = "between_factor"
    /\ info' = "none"
    /\ UNCHANGED <<A, distVars, pcmVars>>

\* move the right operand to the left register
Take ==
  /\ A' = B
  /\ out' = B
  /\ op' = "take"
  /\ noise' = Zero6
  /\ info' = "none"
  /\ UNCHANGED <<B, distVars, pcmVars>>

Compose ==
  /\ out' = compose(A, B)
  /\ op' = "compose"
  /\ noise' = Zero6
  /\ info' = "none"
  /\ UNCHANGED <<A, B, distVars, pcmVars>>

Inverse ==
  /\ out' = inverse(A)
  /\ op' = "inverse"
  /\ noise' = Zero6
  /\ info' = "none"
  /\ UNCHANGED <<A, B, distVars, pcmVars>>

Between ==
  \E l \in LLT(BetweenCovDirect(A, B)) :
    /\ out' = between(A, B, l)
    /\ info' = l
    /\ op' = "between"
    /\ noise' = Zero6
    /\ UNCHANGED <<A, B, distVars, pcmVars>>

\* A.compose(A.inverse())
ComposeInverse ==
  /\ out' = compose(A, inverse(A))
  /\ op' = "compose_inverse"
  /\ noise' = Zero6
  /\ info' = "none"
  /\ UNCHANGED <<A, B, distVars, pcmVars>>

\* A.between(A.compose(B))
BetweenCompose ==
  \E l \in LLT(BetweenCovDirect(A, compose(A, B))) :
    /\ out' = between(A, compose(A, B), l)
    /\ info' = l
    /\ op' = "between_compose"
    /\ noise' = Zero6
    /\ UNCHANGED <<A, B, distVars, pcmVars>>

NextAlg ==
  \/ NewPrior
  \/ NewBetweenFactor
  \/ Take
  \/ Compose
  \/ Inverse
  \/ Between
  \/ ComposeInverse
  \/ BetweenCompose

SpecAlg == InitAlg /\ [][NextAlg]_vars

(***************************************************************************)
(* The distance variant as a register machine closed under compose,        *)
(* inverse and between, started from the default and prior constructors.   *)
(***************************************************************************)
\* input poses: steps along the x axis, facing forward or after a half turn
\* about z
DistPoseSet ==
  {[R |-> Identity3, t |-> <<x, 0, 0>>] : x \in 0..MaxStep}
    \cup {[R |-> RotMul(Rz, Rz), t |-> <<x, 0, 0>>] : x \in 1..MaxStep}

DistBounded(p) ==
  /\ p.distance <= MaxDist
  /\ \A i \in 1..3 : p.pose.t[i] <= MaxDist /\ p.pose.t[i] >= 0 - MaxDist

InitDist ==
  /\ AlgIdle
  /\ PcmIdle
  /\ DA = PoseWithDistanceDefault
  /\ DB = PoseWithDistanceDefault
  /\ dout = PoseWithDistanceDefault
  /\ dop = "default"
  /\ abs_overload \in {"double", "int"}

DistNewPrior ==
  \E p \in DistPoseSet :
    /\ DB' = PoseWithDistancePrior(p)
    /\ dout' = DB'
    /\ dop' = "prior"
    /\ UNCHANGED <<DA, abs_overload, algVars, pcmVars>>

\* keep the last result as the left operand
DistTakeLeft ==
  /\ DistBounded(dout)
  /\ DA' = dout
  /\ dop' = "take"
  /\ UNCHANGED <<DB, dout, abs_overload, algVars, pcmVars>>

\* keep the last result as the right operand
DistTakeRight ==
  /\ DistBounded(dout)
  /\ DB' = dout
  /\ dop' = "take"
  /\ UNCHANGED <<DA, dout, abs_overload, algVars, pcmVars>>

DistCompose ==
  /\ HasNorm(DB.pose.t)
  /\ dout' = dist_compose(DA, DB)
  /\ dop' = "compose"
  /\ UNCHANGED <<DA, DB, abs_overload, algVars, pcmVars>>

DistInverse ==
  /\ dout' = dist_inverse(DA)
  /\ dop' = "inverse"
  /\ UNCHANGED <<DA, DB, abs_overload, algVars, pcmVars>>

DistBetween ==
  /\ dout' = dist_between(DA, DB, abs_overload)
  /\ dop' = "between"
  /\ UNCHANGED <<DA, DB, abs_overload, algVars, pcmVars>>

\* A.between(A.compose(B))
DistBetweenCompose ==
  /\ HasNorm(DB.pose.t)
  /\ dout' = dist_between(DA, dist_compose(DA, DB), abs_overload)
  /\ dop' = "between_compose"
  /\ UNCHANGED <<DA, DB, abs_overload, algVars, pcmVars>>

NextDist ==
  \/ DistNewPrior
  \/ DistTakeLeft
  \/ DistTakeRight
  \/ DistCompose
  \/ DistInverse
  \/ DistBetween
  \/ DistBetweenCompose

SpecDist == InitDist /\ [][NextDist]_vars

(***************************************************************************)
(* The outlier-rejection layer behind RobustPGO::loadGraph / addGraph      *)
(* (class PCM<gtsam::Pose3>), as the tests drive it: a prior, odometry     *)
(* edges and loop closures for robot a, then a bridge factor and the same  *)
(* for robot b.  Odometry edges, the prior and the bridge are always kept  *)
(* (the tests count all of them with an odometry threshold of 0); a loop   *)
(* closure is admitted when it agrees with the trajectory within the       *)
(* odometry threshold, and the admitted ones are compared pairwise within  *)
(* the loop-closure threshold.  A key is <<robot, index>>.  Each robot has  *)
(* its own trajectory, started with no uncertainty; poses of two robots    *)
(* are related across the bridge (the separator).                          *)
(***************************************************************************)
Robots == {"a", "b"}
PoseLimit(r) == IF r = "a" THEN MaxPoses ELSE MaxPoses - 1

HasKey(k) == k[2] < Len(trajectory[k[1]])
AllKeys == {k \in Robots \X (0..(MaxPoses - 1)) : HasKey(k)}
PoseAt(k) == trajectory[k[1]][k[2] + 1]
KeyBefore(i, j) == (i[1] = "a" /\ j[1] = "b") \/ (i[1] = j[1] /\ i[2] < j[2])

\* norm() <= threshold; a comparison with a non-finite norm is false
NormWithin(p, threshold) ==
  LET n == norm2(p)
      num == IF n.den < 0 THEN 0 - n.num ELSE n.num
      den == IF n.den < 0 THEN 0 - n.den ELSE n.den
  IN /\ den # 0
     /\ num >= 0
     /\ \/ num \div den < threshold * threshold
        \/ num \div den = threshold * threshold /\ num % den = 0

\* between() with the outcome of its own Cholesky check
betweenChecked(x, y) ==
  between(x, y, CHOOSE l \in LLT(BetweenCovDirect(x, y)) : TRUE)

\* relative pose of two trajectory nodes, across the separator when they
\* belong to different robots
poseBetween(i, j) ==
  IF i[1] = j[1] THEN betweenChecked(PoseAt(i), PoseAt(j))
  ELSE IF i[1] = "a"
  THEN compose(compose(betweenChecked(PoseAt(i), PoseAt(<<"a", 0>>)), separator),
               betweenChecked(PoseAt(<<"b", 0>>), PoseAt(j)))
  ELSE compose(compose(betweenChecked(PoseAt(i), PoseAt(<<"b", 0>>)), inverse(separator)),
               betweenChecked(PoseAt(<<"a", 0>>), PoseAt(j)))

\* residual of a loop closure against the trajectory
isOdomConsistent(lc) ==
  NormWithin(compose(poseBetween(lc.i, lc.j), inverse(lc.pose)), odom_threshold)

\* residual of the loop l1, trajectory, l2, trajectory
areLoopsConsistent(l1, l2) ==
  NormWithin(compose(compose(compose(l1.pose, poseBetween(l1.j, l2.i)), l2.pose),
                     poseBetween(l2.j, l1.i)),
             lc_threshold)

IsClique(S, adj) == \A x \in S : \A y \in S : x # y => {x, y} \in adj

MinOf(S) == CHOOSE x \in S : \A y \in S : x <= y

MaxCliques(n, adj) ==
  LET cliques == {S \in SUBSET (1..n) : IsClique(S, adj)}
  IN {S \in cliques : \A T \in cliques : Cardinality(T) <= Cardinality(S)}

\* the newest measurement alone
findInliers_newest(n, adj) == {n}

\* the maximum clique; among several, the one with the earliest insertions
findInliers(n, adj) ==
  CHOOSE S \in MaxCliques(n, adj) :
    \A T \in MaxCliques(n, adj) : T # S => MinOf((S \ T) \cup (T \ S)) \in S

Factor(kind, i, j) == [kind |-> kind, i |-> i, j |-> j]

currentAcceptedFactors ==
  nfg_odom \cup {Factor("loop_closure", loop_closures[k].i, loop_closures[k].j) : k \in inliers}

\* inputs: unit steps along x as odometry, a unit step along y as bridge, loop
\* closures displaced along x from the trajectory-implied pose
Translation(x, y, z) == [R |-> Identity3, t |-> <<x, y, z>>]
OdomNoiseSet == {DiagRT(1, 1), WithRot(DiagRT(1, 1), NaN, NaN)}
BridgeNoise == DiagRT(1, 1)
LCNoiseSet == {DiagRT(1, 1), WithRot(DiagRT(1, 1), NaN, NaN)}
OffsetSet == {<<x, 0, 0>> : x \in (0 - MaxOffset)..MaxOffset}
ThresholdPairs == {<<0, 10>>, <<100, 100>>, <<100, 0>>}

InitPcm ==
  /\ AlgIdle
  /\ DistIdle
  /\ \E th \in ThresholdPairs : odom_threshold = th[1] /\ lc_threshold = th[2]
  /\ trajectory = [r \in Robots |-> <<>>]
  /\ separator = PoseWithCovarianceDefault
  /\ nfg_odom = {}
  /\ values = {}
  /\ loop_closures = <<>>
  /\ adjacency = {}
  /\ inliers = {}
  /\ rejected = {}
  /\ promoted = {}

\* loadGraph: the prior on robot a's first pose
loadGraph ==
  /\ trajectory["a"] = <<>>
  /\ trajectory' = [trajectory EXCEPT !["a"] = <<PoseWithCovariancePrior(PoseIdentity)>>]
  /\ nfg_odom' = {Factor("prior", <<"a", 0>>, <<"a", 0>>)}
  /\ values' = {<<"a", 0>>}
  /\ UNCHANGED <<odom_threshold, lc_threshold, separator, loop_closures, adjacency, inliers,
                 rejected, promoted, algVars, distVars>>

\* addGraph that leaves robot b's first pose out of the estimate
addGraph_without_value ==
  /\ trajectory["a"] # <<>>
  /\ trajectory["b"] = <<>>
  /\ separator' = PoseWithCovarianceBetweenFactor(Translation(0, 1, 0), BridgeNoise)
  /\ trajectory' = [trajectory EXCEPT !["b"] =
       <<PoseWithCovariancePrior(PoseCompose(PoseAt(<<"a", 0>>).pose, separator'.pose))>>]
  /\ nfg_odom' = nfg_odom \cup {Factor("bridge", <<"a", 0>>, <<"b", 0>>)}
  /\ UNCHANGED <<odom_threshold, lc_threshold, values, loop_closures, adjacency, inliers,
                 rejected, promoted, algVars, distVars>>

\* addGraph: the bridge factor from robot a's first pose to robot b's
addGraph ==
  /\ trajectory["a"] # <<>>
  /\ trajectory["b"] = <<>>
  /\ separator' = PoseWithCovarianceBetweenFactor(Translation(0, 1, 0), BridgeNoise)
  /\ trajectory' = [trajectory EXCEPT !["b"] =
       <<PoseWithCovariancePrior(PoseCompose(PoseAt(<<"a", 0>>).pose, separator'.pose))>>]
  /\ nfg_odom' = nfg_odom \cup {Factor("bridge", <<"a", 0>>, <<"b", 0>>)}
  /\ values' = values \cup {<<"b", 0>>}
  /\ UNCHANGED <<odom_threshold, lc_threshold, loop_closures, adjacency, inliers,
                 rejected, promoted, algVars, distVars>>

\* an odometry edge from the last pose of robot r to a new pose
acceptOdometry ==
  \E r \in Robots : \E c \in OdomNoiseSet :
    LET n == Len(trajectory[r])
    IN /\ n >= 1
       /\ n < PoseLimit(r)
       /\ trajectory' = [trajectory EXCEPT ![r] =
            Append(@, compose(@[n], PoseWithCovarianceBetweenFactor(Translation(1, 0, 0), c)))]
       /\ nfg_odom' = nfg_odom \cup {Factor("odometry", <<r, n - 1>>, <<r, n>>)}
       /\ values' = values \cup {<<r, n>>}
       /\ UNCHANGED <<odom_threshold, lc_threshold, separator, loop_closures, adjacency, inliers,
                      rejected, promoted, algVars, distVars>>

\* a loop-closure candidate between two poses: the consistency check, and for
\* an admitted candidate its row of the consistency graph and the new maximum
\* clique
acceptLoopClosure ==
  \E i \in AllKeys : \E j \in AllKeys : \E e \in OffsetSet : \E c \in LCNoiseSet :
    LET implied == PoseBetween(PoseAt(i).pose, PoseAt(j).pose)
        measured == [R |-> implied.R, t |-> Vec3(LAMBDA k : implied.t[k] + e[k])]
        lc == [i |-> i, j |-> j, pose |-> PoseWithCovarianceBetweenFactor(measured, c)]
        n == Len(loop_closures)
    IN /\ KeyBefore(i, j)
       /\ n + Cardinality(rejected) < MaxLC
       /\ \A k \in 1..n : <<loop_closures[k].i, loop_closures[k].j>> # <<i, j>>
       /\ \A x \in rejected : <<x.i, x.j>> # <<i, j>>
       /\ IF isOdomConsistent(lc)
          THEN /\ loop_closures' = Append(loop_closures, lc)
               /\ adjacency' = adjacency \cup
                    {{k, n + 1} : k \in {k \in 1..n : areLoopsConsistent(loop_closures[k], lc)}}
               /\ inliers' = findInliers(n + 1, adjacency')
               /\ promoted' = promoted \cup ((1..n) \cap (inliers' \ inliers))
               /\ UNCHANGED rejected
          ELSE /\ rejected' = rejected \cup {lc}
               /\ UNCHANGED <<loop_closures, adjacency, inliers, promoted>>
       /\ UNCHANGED <<odom_threshold, lc_threshold, trajectory, separator, nfg_odom, values,
                      algVars, distVars>>

NextPcm ==
  \/ loadGraph
  \/ addGraph
  \/ acceptOdometry
  \/ acceptLoopClosure

SpecPcm == InitPcm /\ [][NextPcm]_vars

(***************************************************************************)
(* Properties of the covariance algebra.                                   *)
(***************************************************************************)
Symmetric(M) == \A i \in 1..6 : \A j \in 1..6 : M[i][j] = M[j][i]

\* positive semi-definiteness of a finite symmetric matrix, by symmetric
\* fraction-free elimination: a pivot is negative (not PSD), zero (its row
\* must vanish) or positive (eliminate and go on)
RECURSIVE psd_from(_, _, _)
psd_from(M, k, prev) ==
  IF k > 6 THEN TRUE
  ELSE IF M[k][k] < 0 THEN FALSE
  ELSE IF M[k][k] = 0
       THEN (\A j \in k..6 : M[k][j] = 0) /\ psd_from(M, k + 1, prev)
  ELSE psd_from(
         Mat6(LAMBDA i, j :
                IF i > k /\ j > k
                THEN (M[k][k] * M[i][j] - M[i][k] * M[k][j]) \div prev
                ELSE M[i][j]),
         k + 1, M[k][k])

IsPSD(M) == MatFinite(M) /\ Symmetric(M) /\ psd_from(M, 1, 1)

RotBlockZero(M) == \A i \in 1..3 : \A j \in 1..3 : M[i][j] = 0
CrossBlocksZero(M) == \A i \in 1..3 : \A j \in 4..6 : M[i][j] = 0 /\ M[j][i] = 0
SameTransBlock(M, N) == \A i \in 4..6 : \A j \in 4..6 : M[i][j] = N[i][j]
RotTrace(M) == FAdd(FAdd(M[1][1], M[2][2]), M[3][3])

\* C5: for every A with a positive semi-definite covariance, A.compose(A.inverse())
\* has the identity pose and a positive semi-definite covariance, the sum of the
\* two propagated terms (each equal to Ad_A * Cov_A * Ad_A^T).
C5_ComposeInverseIdentity ==
  (op = "compose_inverse" /\ IsPSD(A.covariance_matrix)) =>
    /\ out.pose = PoseIdentity
    /\ IsPSD(out.covariance_matrix)
    /\ out.covariance_matrix =
         MatAdd(Propagate(AdjointMap(A.pose), A.covariance_matrix),
                Propagate(AdjointMap(A.pose), A.covariance_matrix))

C5_Witness ==
  /\ op = "compose_inverse"
  /\ A.pose.R = Rz
  /\ A.covariance_matrix = Correlated
  /\ out.covariance_matrix # Zero6
  /\ \E i \in 1..6 : \E j \in 1..6 : i # j /\ out.covariance_matrix[i][j] # 0

\* C6: A.between(A.compose(relative)) returns exactly relative's pose, whatever the
\* covariances and whichever covariance branch between() takes.
C6_BetweenComposeRecovers ==
  op = "between_compose" => out.pose = B.pose

C6_Witness ==
  /\ op = "between_compose"
  /\ info = "NumericalIssue"
  /\ A.pose.R = Rz
  /\ B.pose.R = Rx
  /\ A.covariance_matrix # Zero6

Magnitude(x) == IF x < 0 THEN 0 - x ELSE x

\* C10: every PoseWithDistance reachable from the default or prior constructor
\* by compose, inverse and between has distance >= 0; compose adds the length of
\* the right operand's translation, inverse keeps the distance, between yields
\* the absolute difference of the distances, so A.between(A.compose(B)).distance
\* is the length of B's translation and A.between(B).distance equals
\* B.between(A).distance.
C10_DistanceAlgebra ==
  /\ DA.distance >= 0 /\ DB.distance >= 0 /\ dout.distance >= 0
  /\ dop = "compose" => dout.distance = DA.distance + TranslationNorm(DB.pose.t)
  /\ dop = "inverse" => dout.distance = DA.distance
  /\ dop = "between" =>
       /\ dout.distance = Magnitude(DB.distance - DA.distance)
       /\ dout.distance = dist_between(DB, DA, abs_overload).distance
  /\ dop = "between_compose" => dout.distance = TranslationNorm(DB.pose.t)

(***************************************************************************)
(* Properties of the outlier-rejection layer.                              *)
(***************************************************************************)
ExactMatch(lc) == lc.pose.pose = PoseBetween(PoseAt(lc.i).pose, PoseAt(lc.j).pose)
Stored == {loop_closures[k] : k \in 1..Len(loop_closures)}
LoopClosureFactors == {f \in currentAcceptedFactors : f.kind = "loop_closure"}
NumPoses == Len(trajectory["a"]) + Len(trajectory["b"])

\* C1: with an odometry threshold of 0 every loop closure that does not
\* exactly match the trajectory-implied relative pose is rejected: no stored
\* measurement and no accepted loop-closure factor is inexact, a rejected
\* candidate is neither stored nor an accepted factor, and when every offered
\* loop closure was rejected the accepted factors are the prior, the odometry
\* edges and the bridge alone, one factor per loaded pose (50, and 92 with
\* robot b).
C1_ZeroThresholdRejectsInexact ==
  odom_threshold = 0 =>
    /\ \A lc \in Stored : ExactMatch(lc)
    /\ \A x \in rejected :
         /\ x \notin Stored
         /\ Factor("loop_closure", x.i, x.j) \notin currentAcceptedFactors
    /\ \A f \in LoopClosureFactors :
         \E lc \in Stored : lc.i = f.i /\ lc.j = f.j /\ ExactMatch(lc)
    /\ Stored = {} =>
         /\ \A f \in currentAcceptedFactors : f.kind \in {"prior", "odometry", "bridge"}
         /\ Cardinality(currentAcceptedFactors) = NumPoses

\* both robots loaded, and inexact loop closures with a regular covariance
\* offered and rejected under an odometry threshold of 0
C1_Witness ==
  /\ odom_threshold = 0
  /\ trajectory["b"] # <<>>
  /\ Len(trajectory["a"]) = MaxPoses
  /\ \E x \in rejected : ~ExactMatch(x) /\ x.pose.covariance_matrix[1][1] # 0
  /\ Cardinality(rejected) >= 2
  /\ Cardinality(currentAcceptedFactors) = NumPoses

\* C2: with both thresholds at 100 the checker rejects no candidate: every
\* odometry edge and every offered loop closure is inserted and all of them
\* are accepted factors (53, and 97 with robot b).
C2_LargeThresholdsRejectNothing ==
  (odom_threshold = 100 /\ lc_threshold = 100) =>
    /\ rejected = {}
    /\ inliers = 1..Len(loop_closures)
    /\ Cardinality(currentAcceptedFactors) = NumPoses + Len(loop_closures)

====
